---- MODULE Spec2Model ----
(***************************************************************************)
(* A model of discord.ext.commands.Context (context.py): the reinvocation  *)
(* protocol (reinvoke), the dual-transport send and reply, the help        *)
(* dispatch (send_help), valid and the cached properties, for one call at  *)
(* a time and for two tasks interleaved at their awaits.                   *)
(* Python strings are sequences of one-character strings,                  *)
(* Python lists are objects of a heap addressed by reference, and each     *)
(* coroutine is cut into steps at its awaits.                              *)
(***************************************************************************)
EXTENDS Integers, Sequences, FiniteSets, TLC

VARIABLES
    self,        \* the Context's own attributes (context.py:144-157)
    view,        \* the StringView shared with the parser: buffer, index, previous
    heap,        \* the list objects; self.invoked_parents is a reference into it
    pc,          \* where the running coroutine is suspended
    frame,       \* the locals of the running reinvoke coroutine
    inner,       \* number of steps the inner Command.reinvoke has taken
    reinvoked,   \* calls made to a reinvocation entry point: target, call_hooks
    pre,         \* the context as it was when the running operation was called
    result,      \* how the last operation ended: return value or raised error
    interaction, \* self.interaction: present or not, and response.responded_at
    now,         \* discord.utils.utcnow(), in minutes
    args,        \* the arguments of the running send
    kw,          \* the local kwargs dict of the running send
    calls,       \* the transport calls the running send has issued, in order
    bot,         \* bot.help_command and what it is bound to
    help,        \* the running send_help: its copy of the help command, entity, log
    message,     \* the live guild, channel and author of self.message
    props,       \* the cached properties: what is stored, and what reads returned
    past,        \* the transport calls of the earlier sends of the session
    parked,      \* a second coroutine, suspended while the first one runs
    ctx          \* which Context the running coroutine was called on

vars == <<self, view, heap, pc, frame, inner, reinvoked, pre, result,
          interaction, now, args, kw, calls, bot, help,
          message, props, past, parked, ctx>>

restVars == <<message, props, past, parked, ctx>>

reinvokeVars == <<self, view, heap, frame, inner, reinvoked, pre>>
sendVars == <<interaction, now, args, kw, calls>>
helpVars == <<bot, help>>

-----------------------------------------------------------------------------
(* Bounds of the model *)

\* steps the inner reinvocation may take before it returns, raises or is cancelled
MaxInner == 2
\* longest invoked_parents list an in-place append may build
MaxParents == 2

-----------------------------------------------------------------------------
(* Python values *)

\* None, for the attributes that hold a Command, a value or nothing
None == "None"
\* None, for Optional[str] attributes; no string has a non-character element
NoStr == <<"None">>

IsSpace(c) == c = " "

\* commands of the bot: g is a group, s a group inside g, t a command inside s,
\* c a standalone command
Commands == {"g", "s", "t", "c"}

\* Command.parent
Parent(cmd) == IF cmd = "t" THEN "s" ELSE IF cmd = "s" THEN "g" ELSE None

\* Command.root_parent: the outermost parent, None for a top-level command
RECURSIVE Outermost(_)
Outermost(cmd) == IF Parent(cmd) = None THEN cmd ELSE Outermost(Parent(cmd))

RootParent(cmd) == IF Parent(cmd) = None THEN None ELSE Outermost(cmd)

\* `x or y` for an Optional[Command] x
Or(x, y) == IF x # None THEN x ELSE y

\* len(self.prefix or "")
PrefixLen(prefix) == IF prefix = NoStr THEN 0 ELSE Len(prefix)

\* StringView.get_word: read up to the next whitespace or the end of the buffer,
\* previous becomes the old index, index moves past the word
RECURSIVE WordLen(_, _)
WordLen(buffer, index) ==
    IF index + 1 > Len(buffer) \/ IsSpace(buffer[index + 1])
        THEN 0
        ELSE 1 + WordLen(buffer, index + 1)

get_word(v) ==
    LET pos == WordLen(v.buffer, v.index)
    IN  [word |-> SubSeq(v.buffer, v.index + 1, v.index + pos),
         view |-> [v EXCEPT !.previous = v.index, !.index = v.index + pos]]

\* the contents of the list self.invoked_parents refers to
Parents == heap[self.invoked_parents]

\* the invocation-identity fields of the context, lists by content
Snapshot ==
    [command |-> self.command,
     invoked_with |-> self.invoked_with,
     invoked_subcommand |-> self.invoked_subcommand,
     invoked_parents |-> Parents,
     subcommand_passed |-> self.subcommand_passed,
     index |-> view.index,
     previous |-> view.previous]

\* every attribute of the context and of the view, lists by content
Everything ==
    [self |-> [self EXCEPT !.invoked_parents = Parents], view |-> view]

-----------------------------------------------------------------------------
(* Contexts as the dispatcher leaves them *)

Ctx(prefix, buffer, command, index, previous, iw, parents, sp) ==
    [prefix |-> prefix, buffer |-> buffer, command |-> command, index |-> index,
     previous |-> previous, invoked_with |-> iw, parents |-> parents,
     subcommand_passed |-> sp]

Dispatched ==
    { \* "!c x": the standalone command c
      Ctx(<<"!">>, <<"!", "c", " ", "x">>, "c", 2, 1, <<"c">>, <<>>, NoStr),
      \* "!g s": the subcommand s reached through the group g
      Ctx(<<"!">>, <<"!", "g", " ", "s">>, "s", 4, 3, <<"s">>, <<<<"g">>>>, NoStr),
      \* "!g": the group g itself, no subcommand given
      Ctx(<<"!">>, <<"!", "g">>, "g", 2, 2, <<"g">>, <<>>, NoStr),
      \* "!g z": the group g, z names no subcommand
      Ctx(<<"!">>, <<"!", "g", " ", "z">>, "g", 4, 3, <<"g">>, <<>>, <<"z">>),
      \* "hi": no prefix matched, no command
      Ctx(NoStr, <<"h", "i">>, None, 0, 0, NoStr, <<>>, NoStr),
      \* "!zz": the prefix matched, no command of that name
      Ctx(<<"!">>, <<"!", "z", "z">>, None, 3, 1, <<"z", "z">>, <<>>, NoStr),
      \* "!g s t": the command t reached through the groups g and s
      Ctx(<<"!">>, <<"!", "g", " ", "s", " ", "t">>, "t", 6, 5, <<"t">>,
          <<<<"g">>, <<"s">>>>, NoStr),
      \* a context built by hand with a command and the default prefix None
      Ctx(NoStr, <<"g", " ", "s">>, "s", 3, 2, <<"s">>, <<<<"g">>>>, NoStr) }

InitContext(c) ==
    /\ self = [prefix |-> c.prefix, command |-> c.command,
               invoked_with |-> c.invoked_with, invoked_parents |-> 1,
               invoked_subcommand |-> None,
               subcommand_passed |-> c.subcommand_passed,
               command_failed |-> FALSE]
    /\ view = [buffer |-> c.buffer, index |-> c.index, previous |-> c.previous]
    /\ heap = <<c.parents>>

NoFrame ==
    [cmd |-> None, index |-> 0, previous |-> 0, invoked_with |-> NoStr,
     invoked_subcommand |-> None, invoked_parents |-> 1,
     subcommand_passed |-> NoStr, to_call |-> None, call_hooks |-> FALSE,
     restart |-> FALSE]

NoResult == [op |-> "none", kind |-> "none", value |-> None]
Returned(op, v) == [op |-> op, kind |-> "return", value |-> v]
Raised(op, e) == [op |-> op, kind |-> "raise", value |-> e]

\* what is recorded of a call of reinvoke: the context it found and its flags
Called(call_hooks, restart) ==
    [ctx |-> Everything, call_hooks |-> call_hooks, restart |-> restart]

Idle == pc = "idle"

-----------------------------------------------------------------------------
(* Context.reinvoke, context.py:193-253 *)

\* the check of line 225 left out
InvalidNever(cmd) == FALSE

\* line 225: `if cmd is None`
Invalid(cmd) == cmd = None

\* line 236: `to_call = cmd.root_parent or cmd`
RestartTarget(cmd) == Or(RootParent(cmd), cmd)

\* the cursor put at the start of the text, the prefix not skipped
RestartViewAtZero == [view EXCEPT !.index = 0, !.previous = 0]

\* line 237: `view.index = len(self.prefix or "")`, line 238: `view.previous = 0`
RestartView == [view EXCEPT !.index = PrefixLen(self.prefix), !.previous = 0]

\* the state to revert to, the target taken from the root whatever restart is
SavedFromRoot(call_hooks, restart) ==
    [cmd |-> self.command, index |-> view.index, previous |-> view.previous,
     invoked_with |-> self.invoked_with,
     invoked_subcommand |-> self.invoked_subcommand,
     invoked_parents |-> self.invoked_parents,
     subcommand_passed |-> self.subcommand_passed,
     to_call |-> RestartTarget(self.command),
     call_hooks |-> call_hooks, restart |-> restart]

\* lines 229-233: the state to revert to, and the flags of the call
Saved(call_hooks, restart) ==
    [cmd |-> self.command, index |-> view.index, previous |-> view.previous,
     invoked_with |-> self.invoked_with,
     invoked_subcommand |-> self.invoked_subcommand,
     invoked_parents |-> self.invoked_parents,
     subcommand_passed |-> self.subcommand_passed,
     to_call |-> IF restart THEN RestartTarget(self.command) ELSE self.command,
     call_hooks |-> call_hooks, restart |-> restart]

\* line 239: `self.invoked_parents = []` binds the attribute to a new, empty list
\* of the heap h and leaves the old list as it is
RestartParents(h) == [heap |-> Append(h, <<>>), ref |-> Len(h) + 1]

\* the finally block without line 252, invoked_parents not put back
FinallySelfKeepsParents ==
    [self EXCEPT !.command = frame.cmd,
                 !.invoked_with = frame.invoked_with,
                 !.invoked_subcommand = frame.invoked_subcommand,
                 !.subcommand_passed = frame.subcommand_passed]

\* lines 247-253, the finally block: the attributes and the cursor put back
FinallySelf ==
    [self EXCEPT !.command = frame.cmd,
                 !.invoked_with = frame.invoked_with,
                 !.invoked_subcommand = frame.invoked_subcommand,
                 !.invoked_parents = frame.invoked_parents,
                 !.subcommand_passed = frame.subcommand_passed]

FinallyView == [view EXCEPT !.index = frame.index, !.previous = frame.previous]

\* a `return` in the finally block: the error is dropped
Swallow(e) == Returned("reinvoke", None)

\* an error leaving the try block is re-raised once the finally block has run
Propagate(e) == Raised("reinvoke", e)

\* lists no attribute or local refers to any more are gone: at a call only the
\* list self.invoked_parents refers to is left
Collected == <<Parents>>

\* lines 223-245: up to the await of the target's reinvoke
ReinvokeCall(call_hooks, restart) ==
    /\ Idle
    /\ pre' = Called(call_hooks, restart)
    /\ IF Invalid(self.command)
         THEN /\ pc' = "done"
              /\ result' = Raised("reinvoke", "ValueError")
              /\ reinvoked' = <<>>
              /\ UNCHANGED <<self, view, heap, frame, inner>>
         ELSE /\ frame' = [Saved(call_hooks, restart) EXCEPT !.invoked_parents = 1]
              /\ IF restart
                   THEN LET got == get_word(RestartView)
                            new == RestartParents(Collected)
                        IN  /\ heap' = new.heap
                            /\ self' = [self EXCEPT !.invoked_parents = new.ref,
                                                    !.invoked_with = got.word]
                            /\ view' = got.view
                   ELSE /\ heap' = Collected
                        /\ self' = [self EXCEPT !.invoked_parents = 1]
                        /\ view' = view
              /\ reinvoked' = <<[target |-> frame'.to_call, call_hooks |-> call_hooks,
                                 outcome |-> "pending"]>>
              /\ inner' = 0
              /\ pc' = "inner"
              /\ result' = NoResult
    /\ UNCHANGED <<sendVars, helpVars, restVars>>

(* Command.reinvoke of the target (core.py): it may assign any attribute of    *)
(* the context, move the cursor, rebind invoked_parents or append to the list  *)
(* in place, and it returns, raises, or is cancelled while suspended.          *)

CommandValues == Commands \cup {None}
WordValues == {NoStr, <<"g">>, <<"z">>}
ListValues == {<<>>, <<<<"c">>>>}
Positions == 0..Len(view.buffer)
Errors == {"CommandError", "CancelledError"}

InnerAssign ==
    /\ pc = "inner"
    /\ inner < MaxInner
    /\ inner' = inner + 1
    /\ \/ \E c \in CommandValues :
            self' = [self EXCEPT !.command = c] /\ UNCHANGED view
       \/ \E w \in WordValues :
            self' = [self EXCEPT !.invoked_with = w] /\ UNCHANGED view
       \/ \E c \in CommandValues :
            self' = [self EXCEPT !.invoked_subcommand = c] /\ UNCHANGED view
       \/ \E w \in WordValues :
            self' = [self EXCEPT !.subcommand_passed = w] /\ UNCHANGED view
       \/ self' = [self EXCEPT !.command_failed = TRUE] /\ UNCHANGED view
       \/ \E i \in Positions :
            view' = [view EXCEPT !.index = i] /\ UNCHANGED self
       \/ \E p \in Positions :
            view' = [view EXCEPT !.previous = p] /\ UNCHANGED self
    /\ UNCHANGED <<heap, pc, frame, reinvoked, pre, result, sendVars, helpVars, restVars>>

\* `ctx.invoked_parents = [...]`: the attribute is bound to another list
InnerRebind ==
    /\ pc = "inner"
    /\ inner < MaxInner
    /\ inner' = inner + 1
    /\ \E l \in ListValues :
         /\ heap' = Append(heap, l)
         /\ self' = [self EXCEPT !.invoked_parents = Len(heap) + 1]
    /\ UNCHANGED <<view, pc, frame, reinvoked, pre, result, sendVars, helpVars, restVars>>

\* `ctx.invoked_parents.append(name)`: the list the attribute refers to grows
InnerAppend ==
    /\ pc = "inner"
    /\ inner < MaxInner
    /\ Len(Parents) < MaxParents
    /\ inner' = inner + 1
    /\ \E w \in WordValues \ {NoStr} :
         heap' = [heap EXCEPT ![self.invoked_parents] = Append(@, w)]
    /\ UNCHANGED <<self, view, pc, frame, reinvoked, pre, result, sendVars, helpVars, restVars>>

\* lines 245-253: the await returns, then the finally block
InnerReturn ==
    /\ pc = "inner"
    /\ self' = FinallySelf
    /\ view' = FinallyView
    /\ result' = Returned("reinvoke", None)
    /\ reinvoked' = [reinvoked EXCEPT ![1].outcome = "return"]
    /\ pc' = "done"
    /\ UNCHANGED <<heap, frame, inner, pre, sendVars, helpVars, restVars>>

\* lines 245-253: the await raises e (the task's cancellation included), then the
\* finally block, then e goes on to the caller
InnerRaise ==
    /\ pc = "inner"
    /\ \E e \in Errors :
         /\ self' = FinallySelf
         /\ view' = FinallyView
         /\ result' = Propagate(e)
         /\ reinvoked' = [reinvoked EXCEPT ![1].outcome = e]
    /\ pc' = "done"
    /\ UNCHANGED <<heap, frame, inner, pre, sendVars, helpVars, restVars>>

NextReinvoke ==
    \/ \E call_hooks \in BOOLEAN, restart \in BOOLEAN : ReinvokeCall(call_hooks, restart)
    \/ InnerAssign
    \/ InnerRebind
    \/ InnerAppend
    \/ InnerReturn
    \/ InnerRaise

-----------------------------------------------------------------------------
(* The cached properties guild, channel, author and me, context.py:288-313 *)

Guilds == {None, "G1", "G2"}
Channels == {"C1", "C2"}
Authors == {"A1", "A2"}

\* what self.message may be at a moment: its guild, channel and author
Messages == [guild : Guilds, channel : Channels, author : Authors]

CachedProperties == {"guild", "channel", "author", "me"}

\* line 313: `self.guild.me if self.guild is not None else self.bot.user`
MeOf(guild) ==
    IF guild = None THEN "bot.user"
    ELSE IF guild = "G1" THEN "G1.me" ELSE "G2.me"

Fetched(value, cache, reads) == [value |-> value, cache |-> cache, reads |-> reads]

\* discord.utils.cached_property on lines 288-313: the first read of p runs the
\* function on the message m and stores what it returns on the instance, every
\* later read returns what is stored; the function of me reads self.guild
Get(cache, m, p) ==
    IF cache[p] # {}
        THEN LET v == CHOOSE x \in cache[p] : TRUE
             IN  Fetched(v, cache, {<<p, v>>})
    ELSE IF p = "me"
        THEN LET g == IF cache.guild # {} THEN CHOOSE x \in cache.guild : TRUE
                                          ELSE m.guild
             IN  Fetched(MeOf(g), [cache EXCEPT !.guild = {g}, !.me = {MeOf(g)}],
                         {<<"guild", g>>, <<"me", MeOf(g)>>})
        ELSE Fetched(m[p], [cache EXCEPT ![p] = {m[p]}], {<<p, m[p]>>})

Nothing == [p \in CachedProperties |-> {}]

\* nothing cached, nothing read
NoProps == [cache |-> Nothing, first |-> Nothing, got |-> {}]

\* props after a read that went as f: the cache as the read leaves it, the value
\* each property returned at its first read, and what this read returned
Read(f) ==
    [cache |-> f.cache,
     first |-> [q \in CachedProperties |->
                  IF props.first[q] = {}
                    THEN {r[2] : r \in {x \in f.reads : x[1] = q}}
                    ELSE props.first[q]],
     got |-> f.reads]

\* a read of p as a plain property: the function runs at every read
ObservedUncached(p) ==
    Read(IF p = "me"
           THEN Fetched(MeOf(message.guild), props.cache,
                        {<<"guild", message.guild>>, <<"me", MeOf(message.guild)>>})
           ELSE Fetched(message[p], props.cache, {<<p, message[p]>>}))

\* a read of the cached property p, lines 288-313
Observed(p) == Read(Get(props.cache, message, p))

\* user code reads ctx.guild, ctx.channel, ctx.author or ctx.me
ReadProperty(p) ==
    /\ Idle
    /\ props' = Observed(p)
    /\ UNCHANGED <<pc, result, reinvokeVars, sendVars, helpVars,
                   message, past, parked, ctx>>

\* the message's guild, channel or author changes under the context; props.got
\* is what has been read since
MessageChanges ==
    /\ Idle
    /\ \E m \in Messages :
         /\ m # message
         /\ message' = m
    /\ props' = [props EXCEPT !.got = {}]
    /\ UNCHANGED <<pc, result, reinvokeVars, sendVars, helpVars,
                   past, parked, ctx>>

-----------------------------------------------------------------------------
(* Context.send, context.py:429-483 *)

\* most options one call passes
MaxOptions == 2

\* the number of finished send and reply calls a session's history keeps
MaxCalls == 3

\* line 460: timedelta(minutes=15)
Window == 15

\* the instants at which the clock is read
Instants == {0, 1, Window - 1, Window, Window + 1, Window + 2}

OptionKeys ==
    {"nonce", "stickers", "reference", "mention_author",
     "file", "files", "allowed_mentions", "embed"}

\* the keyword arguments a caller may pass: a dict of at most MaxOptions options
Options ==
    UNION { [K -> {"v"}] : K \in {S \in SUBSET OptionKeys : Cardinality(S) <= MaxOptions} }

Contents == {None, "hi"}

\* InteractionResponse.is_done: an initial response has been recorded
is_done(i) == i.responded_at # {}

RespondedAt(i) == CHOOSE t \in i.responded_at : TRUE

\* the window compared with `>`: a response exactly 15 minutes old is not expired
ExpiredStrict(i, t) == is_done(i) /\ t - RespondedAt(i) > Window

\* lines 459-460: `responded_at is not None and utcnow() - responded_at >= 15 min`
Expired(i, t) == is_done(i) /\ t - RespondedAt(i) >= Window

\* lines 458-461: the plain channel transport is used
Plain(i, t) == ~i.present \/ Expired(i, t)

\* lines 465-468: the four options the interactive transport does not take
Unsupported == {"nonce", "stickers", "reference", "mention_author"}

\* the pop of line 468 left out
StripThree(kwargs) ==
    [k \in DOMAIN kwargs \ {"nonce", "stickers", "reference"} |-> kwargs[k]]

\* lines 465-468: `kwargs.pop(k, None)` for each of them
Strip(kwargs) == [k \in DOMAIN kwargs \ Unsupported |-> kwargs[k]]

\* the test of is_done() negated
LightweightInverted(return_message, i, kwargs) ==
    ~(\/ return_message
      \/ ~is_done(i)
      \/ \E arg \in {"file", "files", "allowed_mentions"} : arg \in DOMAIN kwargs)

\* "files" missing from the tuple of line 473
LightweightFileOnly(return_message, i, kwargs) ==
    ~(\/ return_message
      \/ is_done(i)
      \/ \E arg \in {"file", "allowed_mentions"} : arg \in DOMAIN kwargs)

\* lines 470-474: `not (return_message or is_done() or any(arg in kwargs ...))`
Lightweight(return_message, i, kwargs) ==
    ~(\/ return_message
      \/ is_done(i)
      \/ \E arg \in {"file", "files", "allowed_mentions"} : arg \in DOMAIN kwargs)

\* a Python bool as a keyword value
Bool(b) == IF b THEN "True" ELSE "False"

\* the channel send given the options left after the pops
PlainCallStripped(content, kwargs) ==
    [fn |-> "channel.send", content |-> content, options |-> Strip(kwargs),
     outcome |-> "pending"]

\* line 462: `super().send(content, **kwargs)`
PlainCall(content, kwargs) ==
    [fn |-> "channel.send", content |-> content, options |-> kwargs,
     outcome |-> "pending"]

\* line 483: `ephemeral=ephemeral, **kwargs`
WithEphemeral(ephemeral, kwargs) ==
    [k \in DOMAIN kwargs \cup {"ephemeral"} |->
        IF k = "ephemeral" THEN Bool(ephemeral) ELSE kwargs[k]]

\* line 483: `send(content, ephemeral=ephemeral, **kwargs)`
InteractiveCall(fn, content, ephemeral, kwargs) ==
    [fn |-> fn, content |-> content, options |-> WithEphemeral(ephemeral, kwargs),
     outcome |-> "pending"]

\* line 479: `self.interaction.response.defer(ephemeral=ephemeral)`
DeferCall(ephemeral) ==
    [fn |-> "response.defer", content |-> None,
     options |-> [k \in {"ephemeral"} |-> Bool(ephemeral)], outcome |-> "pending"]

\* the call up to its first await, with the test of line 478 left out: a call
\* that does not take the lightweight path always defers
BeginDeferring(content, return_message, ephemeral, kwargs, i, t) ==
    IF Plain(i, t)
      THEN [kw |-> kwargs, calls |-> <<PlainCall(content, kwargs)>>,
            pc |-> "channel.send"]
    ELSE IF Lightweight(return_message, i, Strip(kwargs))
      THEN [kw |-> Strip(kwargs),
            calls |-> <<InteractiveCall("response.send_message", content,
                                        ephemeral, Strip(kwargs))>>,
            pc |-> "response.send_message"]
      ELSE [kw |-> Strip(kwargs), calls |-> <<DeferCall(ephemeral)>>,
            pc |-> "response.defer"]

\* lines 458-483, up to the first await: the options the call goes on with, the
\* transport call it awaits first, and where it is suspended
Begin(content, return_message, ephemeral, kwargs, i, t) ==
    IF Plain(i, t)
      THEN [kw |-> kwargs, calls |-> <<PlainCall(content, kwargs)>>,
            pc |-> "channel.send"]
    ELSE IF Lightweight(return_message, i, Strip(kwargs))
      THEN [kw |-> Strip(kwargs),
            calls |-> <<InteractiveCall("response.send_message", content,
                                        ephemeral, Strip(kwargs))>>,
            pc |-> "response.send_message"]
    ELSE IF ~is_done(i)
      THEN [kw |-> Strip(kwargs), calls |-> <<DeferCall(ephemeral)>>,
            pc |-> "response.defer"]
      ELSE [kw |-> Strip(kwargs),
            calls |-> <<InteractiveCall("followup.send", content,
                                        ephemeral, Strip(kwargs))>>,
            pc |-> "followup.send"]

\* Messageable.send starts with _get_channel (lines 260-261), which reads
\* self.channel; the interactive transport does not read it
ChannelRead == IF Plain(interaction, now) THEN Observed("channel") ELSE props

\* send is called; args keeps the arguments, the session as the call found it
\* and the time read at line 460
SendCall(content, return_message, ephemeral, kwargs) ==
    /\ Idle
    /\ props' = ChannelRead
    /\ args' = [op |-> "send", content |-> content,
                return_message |-> return_message,
                ephemeral |-> ephemeral, kwargs |-> kwargs,
                session |-> interaction, at |-> now]
    /\ result' = NoResult
    /\ LET b == Begin(content, return_message, ephemeral, kwargs, interaction, now)
       IN  /\ kw' = b.kw
           /\ calls' = b.calls
           /\ pc' = b.pc
    /\ UNCHANGED <<interaction, now, reinvokeVars, helpVars,
                   message, past, parked, ctx>>

\* the keywords as reply hands them on, the caller's reference forgotten
WithoutReference(kwargs) == kwargs

\* line 501: `reference=self.message, **kwargs`
WithReference(kwargs) ==
    [k \in DOMAIN kwargs \cup {"reference"} |->
        IF k = "reference" THEN "message" ELSE kwargs[k]]

\* lines 497-501: reply is called with ephemeral and the other keywords in its
\* **kwargs; `send(content, return_message=..., reference=self.message, **kwargs)`
\* is a TypeError (two values for the keyword reference) when the caller's
\* keywords hold a reference, and otherwise the call of send
ReplyCall(content, return_message, ephemeral, kwargs) ==
    /\ Idle
    /\ args' = [op |-> "reply", content |-> content,
                return_message |-> return_message,
                ephemeral |-> ephemeral, kwargs |-> kwargs,
                session |-> interaction, at |-> now]
    /\ IF "reference" \in DOMAIN kwargs
         THEN /\ result' = Raised("reply", "TypeError")
              /\ kw' = <<>>
              /\ calls' = <<>>
              /\ pc' = "done"
              /\ UNCHANGED props
         ELSE LET b == Begin(content, return_message, ephemeral,
                             WithReference(kwargs), interaction, now)
              IN  /\ result' = NoResult
                  /\ kw' = b.kw
                  /\ calls' = b.calls
                  /\ pc' = b.pc
                  /\ props' = ChannelRead
    /\ UNCHANGED <<interaction, now, reinvokeVars, helpVars,
                   message, past, parked, ctx>>

\* the awaited transport call ends with outcome o: a value it returns, which send
\* returns (lines 462, 483), or an error it raises, which send lets through
Ended(o) ==
    /\ calls' = [calls EXCEPT ![Len(calls)].outcome = o]
    /\ result' = IF o \in {"HTTPException", "TypeError"}
                   THEN Raised("send", o)
                   ELSE Returned("send", o)
    /\ pc' = "done"

\* the interactive transport takes none of the unsupported options
Rejects(call) == DOMAIN call.options \cap Unsupported # {}

\* line 462: Messageable.send returns the Message, or the request fails
ChannelSendDone ==
    /\ pc = "channel.send"
    /\ \E o \in {"Message", "HTTPException"} : Ended(o)
    /\ UNCHANGED <<interaction, now, args, kw, reinvokeVars, helpVars, restVars>>

\* line 483 through response.send_message: the initial response is recorded and
\* nothing is returned, or the request fails
SendMessageDone ==
    /\ pc = "response.send_message"
    /\ IF Rejects(calls[Len(calls)])
         THEN Ended("TypeError") /\ UNCHANGED interaction
         ELSE \/ /\ interaction' = [interaction EXCEPT !.responded_at = {now}]
                 /\ Ended(None)
              \/ /\ Ended("HTTPException")
                 /\ UNCHANGED interaction
    /\ UNCHANGED <<now, args, kw, reinvokeVars, helpVars, restVars>>

\* lines 479-483: the deferral, which the session records as its initial
\* response, returns and the follow-up is sent, or the deferral fails
DeferDone ==
    /\ pc = "response.defer"
    /\ \/ /\ interaction' = [interaction EXCEPT !.responded_at = {now}]
          /\ calls' = Append([calls EXCEPT ![Len(calls)].outcome = None],
                             InteractiveCall("followup.send", args.content,
                                             args.ephemeral, kw))
          /\ pc' = "followup.send"
          /\ UNCHANGED result
       \/ /\ Ended("HTTPException")
          /\ UNCHANGED interaction
    /\ UNCHANGED <<now, args, kw, reinvokeVars, helpVars, restVars>>

\* line 483 through followup.send: the WebhookMessage is returned, or the
\* request fails
FollowupDone ==
    /\ pc = "followup.send"
    /\ IF Rejects(calls[Len(calls)])
         THEN Ended("TypeError")
         ELSE \E o \in {"WebhookMessage", "HTTPException"} : Ended(o)
    /\ UNCHANGED <<interaction, now, args, kw, reinvokeVars, helpVars, restVars>>

\* time passes
Tick ==
    /\ \E t \in Instants : t > now /\ now' = t
    /\ UNCHANGED <<pc, result, interaction, args, kw, calls, reinvokeVars, helpVars, restVars>>

NextSend ==
    \/ \E content \in Contents, return_message \in BOOLEAN, ephemeral \in BOOLEAN,
          kwargs \in Options : SendCall(content, return_message, ephemeral, kwargs)
    \/ ChannelSendDone
    \/ SendMessageDone
    \/ DeferDone
    \/ FollowupDone
    \/ Tick

NextReply ==
    \/ \E content \in Contents, return_message \in BOOLEAN, ephemeral \in BOOLEAN,
          kwargs \in Options : ReplyCall(content, return_message, ephemeral, kwargs)
    \/ ChannelSendDone
    \/ SendMessageDone
    \/ DeferDone
    \/ FollowupDone
    \/ Tick


-----------------------------------------------------------------------------
(* Context.send_help, context.py:328-407 *)

Object(type, name) == [type |-> type, name |-> name]

\* the entities a caller may pass: names, a cog, a group, a command, an object
\* that has a qualified_name and is none of them, an object without one, None
Entities ==
    { Object("str", "Cog"), Object("str", "g"), Object("str", "c"),
      Object("str", "zz"),
      Object("cog", "Cog"), Object("group", "g"), Object("command", "t"),
      Object("other", "x"), Object("object", None), Object("none", None) }

HelpArgs == {<<>>} \cup {<<e>> : e \in Entities}

NoObject == Object("none", None)

\* bot.get_cog: the bot has the cogs Cog and c
get_cog(name) == IF name \in {"Cog", "c"} THEN Object("cog", name) ELSE NoObject

\* bot.get_command: g and s are groups, t and c are commands
get_command(name) ==
    IF name \in {"g", "s"} THEN Object("group", name)
    ELSE IF name \in {"t", "c"} THEN Object("command", name)
    ELSE NoObject

\* lines 380-381: a name is looked up as a cog, then as a command
Resolve(entity) ==
    IF entity.type = "str"
        THEN IF get_cog(entity.name) # NoObject
                THEN get_cog(entity.name)
                ELSE get_command(entity.name)
        ELSE entity

\* a probe of qualified_name that never raises AttributeError
HasQualifiedNameAlways(entity) == TRUE

\* lines 386-390: the entity has the attribute qualified_name
HasQualifiedName(entity) == entity.type \in {"cog", "group", "command", "other"}

\* line 395: `hasattr(entity, "__cog_commands__")`, the mark of a cog
HasCogCommands(entity) == entity.type = "cog"

\* line 398: `isinstance(entity, Group)`
IsGroup(entity) == entity.type = "group"

\* line 401: `isinstance(entity, Command)`; Group is a subclass of Command
IsCommand(entity) == entity.type \in {"group", "command"}

\* the branches of lines 398 and 401 in the other order
RenderCommandFirst(entity) ==
    IF HasCogCommands(entity) THEN "send_cog_help"
    ELSE IF IsCommand(entity) THEN "send_command_help"
    ELSE IF IsGroup(entity) THEN "send_group_help"
    ELSE None

\* lines 395-405: the render chosen for the entity, None for the else branch
Render(entity) ==
    IF HasCogCommands(entity) THEN "send_cog_help"
    ELSE IF IsGroup(entity) THEN "send_group_help"
    ELSE IF IsCommand(entity) THEN "send_command_help"
    ELSE None

\* what a callback of the help command may raise: an error of the commands
\* framework, or an exception that is no CommandError
HelpErrors == {"CommandError", "KeyboardInterrupt"}

\* an `except` that takes every exception
CaughtAny(e) == TRUE

\* lines 375 and 406: `except CommandError`
Caught(e) == e = "CommandError"

Callback(fn, arg) == [fn |-> fn, arg |-> arg, outcome |-> "pending"]

NoHelp ==
    [cmd |-> None, context |-> None, args |-> <<>>, entity |-> NoObject,
     log |-> <<>>]

\* HelpCommand.copy returns another object than the one it is called on
copy(cmd) == "copy"

\* line 368 without line 367: the call works with the bot's own help command and
\* binds that to the context c
UsedInPlace(b, c) ==
    [bot |-> [b EXCEPT !.context = c], cmd |-> "bot.help_command", context |-> c]

\* lines 367-368: `cmd = cmd.copy()`, `cmd.context = self`; the help command the
\* call works with, bound to the context c, and the bot b with its own
Used(b, c) ==
    [bot |-> b, cmd |-> copy("bot.help_command"), context |-> c]

\* the context a callback of the help command h finds in h.context
ContextOf(h) ==
    IF h.cmd = "bot.help_command" THEN bot.context ELSE h.context

\* lines 361-370 and 379-392: up to the await of prepare_help_command, for the
\* context ctx
SendHelpCall(a) ==
    /\ Idle
    /\ IF ~bot.configured
         THEN /\ help' = [NoHelp EXCEPT !.args = a]
              /\ result' = Returned("send_help", None)
              /\ pc' = "done"
              /\ UNCHANGED bot
         ELSE LET used == Used(bot, ctx)
                  entity == IF a = <<>> THEN NoObject ELSE Resolve(a[1])
              IN  /\ bot' = used.bot
                  /\ IF a # <<>> /\ (entity = NoObject \/ ~HasQualifiedName(entity))
                       THEN /\ help' = [cmd |-> used.cmd, context |-> used.context,
                                        args |-> a, entity |-> entity, log |-> <<>>]
                            /\ result' = Returned("send_help", None)
                            /\ pc' = "done"
                       ELSE /\ help' = [cmd |-> used.cmd, context |-> used.context,
                                        args |-> a, entity |-> entity,
                                        log |-> <<Callback("prepare_help_command",
                                                           entity.name)>>]
                            /\ result' = NoResult
                            /\ pc' = "prepare_help_command"
    /\ UNCHANGED <<reinvokeVars, sendVars, restVars>>

Logged(o) == [help EXCEPT !.log[Len(help.log)].outcome = o]

\* lines 370-374 and 392-405: prepare_help_command returns and the render is
\* awaited, or there is nothing to render, or prepare_help_command raises
PrepareDone ==
    /\ pc = "prepare_help_command"
    /\ \/ LET fn == IF help.args = <<>> THEN "send_bot_help" ELSE Render(help.entity)
              arg == IF help.args = <<>> THEN "mapping" ELSE help.entity.name
          IN  IF fn = None
                THEN /\ help' = Logged("return")
                     /\ result' = Returned("send_help", None)
                     /\ pc' = "done"
                ELSE /\ help' = [Logged("return") EXCEPT
                                    !.log = Append(@, Callback(fn, arg))]
                     /\ pc' = "render"
                     /\ UNCHANGED result
       \/ \E e \in HelpErrors :
            /\ help' = Logged(e)
            /\ result' = Raised("send_help", e)
            /\ pc' = "done"
    /\ UNCHANGED <<bot, reinvokeVars, sendVars, restVars>>

\* lines 373-377 and 394-407: the wrapped render returns its result, or raises;
\* an error the except clause takes is handed to on_help_command_error
RenderDone ==
    /\ pc = "render"
    /\ \/ \E v \in {"help", None} :
            /\ help' = Logged("return")
            /\ result' = Returned("send_help", v)
            /\ pc' = "done"
       \/ \E e \in HelpErrors :
            IF Caught(e)
              THEN /\ help' = [Logged(e) EXCEPT
                                  !.log = Append(@, Callback("on_help_command_error", e))]
                   /\ pc' = "on_help_command_error"
                   /\ UNCHANGED result
              ELSE /\ help' = Logged(e)
                   /\ result' = Raised("send_help", e)
                   /\ pc' = "done"
    /\ UNCHANGED <<bot, reinvokeVars, sendVars, restVars>>

\* lines 376-377 and 407: on_help_command_error returns and send_help returns
\* None, or it raises
OnErrorDone ==
    /\ pc = "on_help_command_error"
    /\ \/ /\ help' = Logged("return")
          /\ result' = Returned("send_help", None)
       \/ \E e \in HelpErrors :
            /\ help' = Logged(e)
            /\ result' = Raised("send_help", e)
    /\ pc' = "done"
    /\ UNCHANGED <<bot, reinvokeVars, sendVars, restVars>>

NextHelp ==
    \/ \E a \in HelpArgs : SendHelpCall(a)
    \/ PrepareDone
    \/ RenderDone
    \/ OnErrorDone

-----------------------------------------------------------------------------
(* Context.valid, context.py:255-258 *)

\* a validity test that looks at the prefix alone
validByPrefix == self.prefix # NoStr

\* line 258: `self.prefix is not None and self.command is not None`
valid == self.prefix # NoStr /\ self.command # None

\* valid is read, between calls, by the inner call of reinvoke, or when a call has
\* ended; result holds what the read returned
ReadValid ==
    /\ pc \in {"idle", "inner", "done"}
    /\ result' = Returned("valid", Bool(valid))
    /\ UNCHANGED <<pc, reinvokeVars, sendVars, helpVars, restVars>>

NextValid ==
    \/ ReadValid
    \/ \E call_hooks \in BOOLEAN, restart \in BOOLEAN : ReinvokeCall(call_hooks, restart)
    \/ InnerAssign
    \/ InnerReturn
    \/ InnerRaise

-----------------------------------------------------------------------------
(* Specifications *)

NoSession == [present |-> FALSE, responded_at |-> {}]

NoArgs ==
    [op |-> "send", content |-> None, return_message |-> TRUE, ephemeral |-> FALSE,
     kwargs |-> <<>>, session |-> NoSession, at |-> 0]

RestReinvoke ==
    /\ frame = NoFrame
    /\ inner = 0
    /\ reinvoked = <<>>
    /\ pre = Called(FALSE, FALSE)

RestSend ==
    /\ now = 0
    /\ args = NoArgs
    /\ kw = <<>>
    /\ calls = <<>>

RestHelp ==
    /\ bot = [configured |-> FALSE, context |-> None]
    /\ help = NoHelp

NoTask ==
    [pc |-> "idle", result |-> NoResult, args |-> NoArgs, kw |-> <<>>,
     calls |-> <<>>, help |-> NoHelp, ctx |-> "ctx1"]

\* the running task gives way to the other task at a suspension point, or before
\* it has started, or when it has ended; the other task goes on from where it
\* was, on its own context
Switch ==
    /\ parked' = [pc |-> pc, result |-> result, args |-> args, kw |-> kw,
                  calls |-> calls, help |-> help, ctx |-> ctx]
    /\ pc' = parked.pc
    /\ result' = parked.result
    /\ args' = parked.args
    /\ kw' = parked.kw
    /\ calls' = parked.calls
    /\ help' = parked.help
    /\ ctx' = parked.ctx
    /\ UNCHANGED <<reinvokeVars, interaction, now, bot, message, props, past>>

Rest ==
    /\ message = [guild |-> "G1", channel |-> "C1", author |-> "A1"]
    /\ props = NoProps
    /\ past = <<>>
    /\ parked = NoTask
    /\ ctx = "ctx1"

\* the frame of the operation that has ended and what was recorded about it are
\* dropped, the context and the session stay
Forget ==
    /\ pc = "done"
    /\ pc' = "idle"
    /\ result' = NoResult
    /\ heap' = Collected
    /\ self' = [self EXCEPT !.invoked_parents = 1]
    /\ frame' = NoFrame
    /\ inner' = 0
    /\ reinvoked' = <<>>
    /\ pre' = Called(FALSE, FALSE)
    /\ args' = NoArgs
    /\ kw' = <<>>
    /\ calls' = <<>>
    /\ help' = NoHelp
    /\ UNCHANGED <<view, interaction, now, bot>>

\* the caller goes on after the operation it awaited
Continue ==
    /\ Forget
    /\ UNCHANGED restVars

\* the caller goes on after a send or a reply, and the transport calls that call
\* made are kept in past, in the order of the calls
Archive ==
    /\ Forget
    /\ Len(past) < MaxCalls
    /\ past' = Append(past, [i \in 1..Len(calls) |->
                                [fn |-> calls[i].fn, outcome |-> calls[i].outcome]])
    /\ UNCHANGED <<message, props, parked, ctx>>

InitReinvoke ==
    /\ \E c \in Dispatched : InitContext(c)
    /\ pc = "idle"
    /\ result = NoResult
    /\ interaction = NoSession
    /\ RestReinvoke
    /\ RestSend
    /\ RestHelp
    /\ Rest

InitSend ==
    /\ InitContext(CHOOSE c \in Dispatched : c.command = "c")
    /\ pc = "idle"
    /\ result = NoResult
    /\ \/ interaction = NoSession
       \/ \E r \in {{}, {0}} : interaction = [present |-> TRUE, responded_at |-> r]
    /\ RestReinvoke
    /\ RestSend
    /\ RestHelp
    /\ Rest

SpecReinvoke == InitReinvoke /\ [][NextReinvoke \/ Continue]_vars

InitHelp ==
    /\ \E c \in Dispatched : InitContext(c)
    /\ pc = "idle"
    /\ result = NoResult
    /\ interaction = NoSession
    /\ \E configured \in BOOLEAN : bot = [configured |-> configured, context |-> None]
    /\ help = NoHelp
    /\ RestReinvoke
    /\ RestSend
    /\ Rest

SpecHelp == InitHelp /\ [][NextHelp \/ Continue]_vars

SpecSend == InitSend /\ [][NextSend \/ Continue]_vars

\* a context on either transport, with reads of the cached properties, changes of
\* the message, and send, reply, reinvoke and send_help in between
InitCache ==
    /\ InitContext(CHOOSE c \in Dispatched : c.command = "c")
    /\ pc = "idle"
    /\ result = NoResult
    /\ \/ interaction = NoSession
       \/ interaction = [present |-> TRUE, responded_at |-> {}]
    /\ bot = [configured |-> TRUE, context |-> None]
    /\ help = NoHelp
    /\ RestReinvoke
    /\ RestSend
    /\ Rest

NextCache ==
    \/ \E p \in CachedProperties : ReadProperty(p)
    \/ MessageChanges
    \/ \E return_message \in BOOLEAN : SendCall("hi", return_message, FALSE, <<>>)
    \/ \E return_message \in BOOLEAN : ReplyCall("hi", return_message, FALSE, <<>>)
    \/ ChannelSendDone
    \/ SendMessageDone
    \/ DeferDone
    \/ FollowupDone
    \/ ReinvokeCall(TRUE, FALSE)
    \/ InnerReturn
    \/ InnerRaise
    \/ SendHelpCall(<<>>)
    \/ PrepareDone
    \/ RenderDone
    \/ OnErrorDone

SpecCache == InitCache /\ [][NextCache \/ Continue]_vars

SpecValid == InitReinvoke /\ [][NextValid \/ Continue]_vars

\* a context with an interactive session that has no response yet; no time
\* passes, so every call is made inside the session's window
InitSession ==
    /\ InitContext(CHOOSE c \in Dispatched : c.command = "c")
    /\ pc = "idle"
    /\ result = NoResult
    /\ interaction = [present |-> TRUE, responded_at |-> {}]
    /\ RestReinvoke
    /\ RestSend
    /\ RestHelp
    /\ Rest

\* the options of the calls of a session: an attachment, a reference, both, none
SessionOptions == {kwargs \in Options : DOMAIN kwargs \subseteq {"file", "reference"}}

\* send and reply calls made one after another
NextSession ==
    \/ \E return_message \in BOOLEAN, ephemeral \in BOOLEAN, kwargs \in SessionOptions :
          SendCall("hi", return_message, ephemeral, kwargs)
    \/ \E return_message \in BOOLEAN, ephemeral \in BOOLEAN, kwargs \in SessionOptions :
          ReplyCall("hi", return_message, ephemeral, kwargs)
    \/ SendMessageDone
    \/ DeferDone
    \/ FollowupDone
    \/ Archive

SpecSession == InitSession /\ [][NextSession]_vars

\* two sends on one context, each at most once, interleaved at their awaits
NextRace ==
    \/ \E return_message \in BOOLEAN, kwargs \in SessionOptions :
          SendCall("hi", return_message, FALSE, kwargs)
    \/ SendMessageDone
    \/ DeferDone
    \/ FollowupDone
    \/ Switch

SpecRace == InitSession /\ [][NextRace]_vars

\* two tasks, one on the context ctx1 and one on ctx2, of a bot with a help
\* command
InitHelps ==
    /\ InitContext(CHOOSE c \in Dispatched : c.command = "c")
    /\ pc = "idle"
    /\ result = NoResult
    /\ interaction = NoSession
    /\ bot = [configured |-> TRUE, context |-> None]
    /\ help = NoHelp
    /\ RestReinvoke
    /\ RestSend
    /\ message = [guild |-> "G1", channel |-> "C1", author |-> "A1"]
    /\ props = NoProps
    /\ past = <<>>
    /\ parked = [NoTask EXCEPT !.ctx = "ctx2"]
    /\ ctx = "ctx1"

\* send_help calls of the two contexts, one after another and interleaved
NextHelps ==
    \/ \E a \in {<<>>, <<Object("str", "g")>>, <<Object("str", "zz")>>} : SendHelpCall(a)
    \/ PrepareDone
    \/ RenderDone
    \/ OnErrorDone
    \/ Switch

SpecHelps == InitHelps /\ [][NextHelps \/ Continue]_vars

SpecReply == InitSend /\ [][NextReply \/ Continue]_vars

-----------------------------------------------------------------------------
(* Properties of reinvoke *)

\* the invocation-identity fields as they were when reinvoke was called
PreSnapshot ==
    [command |-> pre.ctx.self.command,
     invoked_with |-> pre.ctx.self.invoked_with,
     invoked_subcommand |-> pre.ctx.self.invoked_subcommand,
     invoked_parents |-> pre.ctx.self.invoked_parents,
     subcommand_passed |-> pre.ctx.self.subcommand_passed,
     index |-> pre.ctx.view.index,
     previous |-> pre.ctx.view.previous]

ReinvokeExited == pc = "done" /\ result.op = "reinvoke"

\* C1: once reinvoke(restart=True) on a context with a command has exited, by a
\* normal return, an error or a cancellation of the inner call, command,
\* invoked_with, invoked_subcommand, invoked_parents, subcommand_passed and the
\* view's index and previous equal what they were just before the call.
C1_RestartRestoresFields ==
    (ReinvokeExited /\ pre.restart /\ pre.ctx.self.command # None)
        => Snapshot = PreSnapshot

\* a restarted reinvoke of "!g s t" whose inner call changed the context twice
\* and was then cancelled
C1_Witness ==
    /\ ReinvokeExited
    /\ pre.restart
    /\ pre.ctx.self.command = "t"
    /\ inner = MaxInner
    /\ reinvoked[1].outcome = "CancelledError"
    /\ Len(heap) > 2

\* C7: reinvoke on a context without a command raises the invalid-state error,
\* calls no reinvocation entry point and leaves every attribute of the context
\* and the view's index and previous as they were, whatever restart is.
C7_NoCommandRaisesUntouched ==
    (ReinvokeExited /\ pre.ctx.self.command = None)
        => /\ result = Raised("reinvoke", "ValueError")
           /\ reinvoked = <<>>
           /\ Everything = pre.ctx

\* reinvoke(restart=True) has failed on the context of "!zz", which has a prefix
\* and an invoked_with but no command
C7_Witness ==
    /\ ReinvokeExited
    /\ pre.ctx.self.command = None
    /\ pre.ctx.self.prefix # NoStr
    /\ pre.restart
    /\ result.kind = "raise"

\* the inner reinvocation entry point has just been entered
Entered == pc = "inner" /\ inner = 0

\* w is the token of the text b that starts right after position p
IsTokenAt(w, b, p) ==
    /\ w # NoStr
    /\ p + Len(w) <= Len(b)
    /\ w = SubSeq(b, p + 1, p + Len(w))
    /\ \A i \in 1..Len(w) : ~IsSpace(w[i])
    /\ p + Len(w) = Len(b) \/ IsSpace(b[p + Len(w) + 1])

\* C8: when reinvoke(restart=True) enters the inner reinvocation, the target is
\* the root ancestor of the command (the command itself if it has no parent),
\* invoked_parents is empty, invoked_with is the first token of the text after
\* the prefix (from position 0 if the prefix is None), and the cursor stands
\* right after that token.
C8_RestartFromRoot ==
    (Entered /\ pre.restart)
        => LET cmd == pre.ctx.self.command
               p == IF pre.ctx.self.prefix = NoStr THEN 0 ELSE Len(pre.ctx.self.prefix)
           IN  /\ Len(reinvoked) = 1
               /\ reinvoked[1].target = Outermost(cmd)
               /\ Parent(reinvoked[1].target) = None
               /\ Parents = <<>>
               /\ IsTokenAt(self.invoked_with, view.buffer, p)
               /\ view.index = p + Len(self.invoked_with)

\* the restart of "!g s t" has entered g's reinvoke: the target is neither the
\* command t nor its parent s, and the token read is "g", after the prefix
C8_Witness ==
    /\ Entered
    /\ pre.restart
    /\ pre.ctx.self.command = "t"
    /\ reinvoked[1].target = "g"
    /\ self.invoked_with = <<"g">>
    /\ pre.ctx.self.invoked_with = <<"t">>
    /\ view.index = 2

\* the fields are bound to what they were bound to before the call:
\* invoked_parents to the same list, the others to the same values
Rebound ==
    /\ self.command = pre.ctx.self.command
    /\ self.invoked_with = pre.ctx.self.invoked_with
    /\ self.invoked_subcommand = pre.ctx.self.invoked_subcommand
    /\ self.subcommand_passed = pre.ctx.self.subcommand_passed
    /\ self.invoked_parents = 1
    /\ view.index = pre.ctx.view.index
    /\ view.previous = pre.ctx.view.previous

\* C9: when the inner reinvocation fails, reinvoke fails with the same error,
\* and by the time the caller sees the error the bookkeeping fields have been
\* put back.
C9_InnerErrorPropagatesAfterRestore ==
    (ReinvokeExited /\ reinvoked # <<>> /\ reinvoked[1].outcome \in Errors)
        => /\ result = Raised("reinvoke", reinvoked[1].outcome)
           /\ Rebound

\* the inner call of a reinvoke(restart=False) changed the context and then
\* raised a CommandError
C9_Witness ==
    /\ ReinvokeExited
    /\ ~pre.restart
    /\ inner > 0
    /\ reinvoked[1].outcome = "CommandError"
    /\ result.kind = "raise"

-----------------------------------------------------------------------------
(* Properties of send *)

\* a send has been called and has not been left behind by its caller
Sending == calls # <<>>

\* minutes between the session's initial response and the call
Elapsed == args.at - RespondedAt(args.session)

InteractiveFns == {"response.send_message", "response.defer", "followup.send"}

\* the session the call found has not responded yet
Fresh == args.session.present /\ ~is_done(args.session)

\* the session the call found is inside its window by any reading of the boundary
Active == args.session.present /\ (is_done(args.session) => Elapsed < Window)

\* the call found no session, or one whose initial response is more than 15
\* minutes old
Lapsed == ~args.session.present \/ (is_done(args.session) /\ Elapsed > Window)

\* C2 as claimed: a send exactly 15 minutes after the session's initial response
\* still goes through the interactive transport.
C2_Claimed_ExactlyWindowIsActive ==
    (Sending /\ args.session.present /\ is_done(args.session) /\ Elapsed = Window)
        => calls[1].fn \in InteractiveFns

\* C2, amended: a send whose session recorded its initial response 15 minutes or
\* more before the call goes through the plain channel transport; only an elapsed
\* time strictly less than 15 minutes goes through the interactive transport.
C2_WindowIsHalfOpen ==
    (Sending /\ args.session.present /\ is_done(args.session))
        => (calls[1].fn = "channel.send" <=> Elapsed >= Window)

\* a send exactly 15 minutes after the initial response went to the channel
C2_Witness ==
    /\ Sending
    /\ args.session.present
    /\ is_done(args.session)
    /\ Elapsed = Window
    /\ calls[1].fn = "channel.send"
    /\ pc = "done"

\* C3: without a session, or with one past its window, send issues exactly one
\* plain channel send and no defer, initial response or follow-up; the content
\* and every option of the caller, nonce, stickers, reference and mention_author
\* included, reach it unchanged, and what it returns is what send returns.
C3_PlainPassesEverything ==
    (Sending /\ Lapsed)
        => /\ Len(calls) = 1
           /\ calls[1].fn = "channel.send"
           /\ calls[1].content = args.content
           /\ calls[1].options = args.kwargs
           /\ pc = "done" /\ calls[1].outcome = "Message"
                => result = Returned("send", "Message")

\* a send 16 minutes after the initial response passed nonce and mention_author
\* to the channel and returned its Message
C3_Witness ==
    /\ pc = "done"
    /\ Sending
    /\ args.session.present
    /\ is_done(args.session)
    /\ Elapsed = Window + 1
    /\ DOMAIN args.kwargs = {"nonce", "mention_author"}
    /\ result = Returned("send", "Message")

NoAttachment ==
    \A k \in {"file", "files", "allowed_mentions"} : k \notin DOMAIN args.kwargs

\* C4: with a session that has not responded yet, return_message false and none
\* of file, files, allowed_mentions, send goes through the initial response
\* alone, without a deferral or a follow-up, and returns None.
C4_LightweightPath ==
    (Sending /\ Fresh /\ ~args.return_message /\ NoAttachment)
        => /\ Len(calls) = 1
           /\ calls[1].fn = "response.send_message"
           /\ pc = "done" /\ result.kind = "return" => result.value = None

\* such a send, with an embed, has returned None
C4_Witness ==
    /\ pc = "done"
    /\ Sending
    /\ Fresh
    /\ ~args.return_message
    /\ DOMAIN args.kwargs = {"embed", "nonce"}
    /\ calls[1].fn = "response.send_message"
    /\ result = Returned("send", None)

Attachment == "file" \in DOMAIN args.kwargs \/ "files" \in DOMAIN args.kwargs

\* C5: with an active session and a file or files option, for either value of
\* return_message, send never uses the initial-response send and ends in the
\* follow-up; a session that has not responded is first sent a deferral
\* carrying the call's ephemeral flag, before the follow-up, and a session
\* that has responded is sent no deferral.
C5_AttachmentTakesFollowup ==
    (Sending /\ Active /\ Attachment)
        => /\ \A i \in 1..Len(calls) :
                calls[i].fn \notin {"response.send_message", "channel.send"}
           /\ IF is_done(args.session)
                THEN Len(calls) = 1 /\ calls[1].fn = "followup.send"
                ELSE /\ calls[1].fn = "response.defer"
                     /\ calls[1].options = [k \in {"ephemeral"} |-> Bool(args.ephemeral)]
                     /\ Len(calls) <= 2
                     /\ Len(calls) = 2 =>
                          /\ calls[2].fn = "followup.send"
                          /\ calls[1].outcome = None
           /\ pc = "done" /\ result.kind = "return"
                => calls[Len(calls)].fn = "followup.send"

\* a send with files, return_message false and ephemeral true to a session that
\* had not responded deferred and then followed up
C5_Witness ==
    /\ pc = "done"
    /\ Sending
    /\ Fresh
    /\ ~args.return_message
    /\ args.ephemeral
    /\ "files" \in DOMAIN args.kwargs
    /\ Len(calls) = 2
    /\ result = Returned("send", "WebhookMessage")

\* C6: whenever send goes through the initial-response send or the follow-up,
\* none of nonce, stickers, reference, mention_author is passed to it, their
\* presence raises no error, and every other option of the caller is passed
\* together with the ephemeral flag.
C6_UnsupportedDropped ==
    \A i \in 1..Len(calls) :
        calls[i].fn \in {"response.send_message", "followup.send"}
            => /\ DOMAIN calls[i].options \cap
                    {"nonce", "stickers", "reference", "mention_author"} = {}
               /\ calls[i].content = args.content
               /\ calls[i].options =
                    [k \in (DOMAIN args.kwargs \
                              {"nonce", "stickers", "reference", "mention_author"})
                           \cup {"ephemeral"} |->
                        IF k = "ephemeral" THEN Bool(args.ephemeral)
                                           ELSE args.kwargs[k]]
               /\ result.value # "TypeError"

\* a follow-up called with mention_author and embed was sent the embed alone
C6_Witness ==
    /\ pc = "done"
    /\ Sending
    /\ DOMAIN args.kwargs = {"mention_author", "embed"}
    /\ calls[Len(calls)].fn = "followup.send"
    /\ "embed" \in DOMAIN calls[Len(calls)].options
    /\ result = Returned("send", "WebhookMessage")

-----------------------------------------------------------------------------
(* Properties of send_help *)

HelpExited == pc = "done" /\ result.op = "send_help"

Renders == {"send_bot_help", "send_cog_help", "send_group_help", "send_command_help"}

\* the i-th callback is prepare_help_command or a render, and it raised
RendererFailed(i) ==
    /\ help.log[i].fn \in Renders \cup {"prepare_help_command"}
    /\ help.log[i].outcome \in HelpErrors

\* the callback after the i-th one is on_help_command_error, given the error the
\* i-th one raised
HandedOver(i) ==
    /\ Len(help.log) > i
    /\ help.log[i + 1].fn = "on_help_command_error"
    /\ help.log[i + 1].arg = help.log[i].outcome

\* C10 as claimed: every error raised by prepare_help_command or by a render,
\* of whatever kind, is handed to on_help_command_error and, that callback
\* having returned, send_help returns to its caller.
C10_Claimed_EveryErrorRedirected ==
    HelpExited =>
        \A i \in 1..Len(help.log) :
            RendererFailed(i)
                => /\ HandedOver(i)
                   /\ help.log[i + 1].outcome = "return" => result.kind = "return"

\* C10, amended: a CommandError raised by the wrapped render (top-level, cog,
\* group or command) is handed to on_help_command_error and, that callback having
\* returned, send_help returns None; an error raised by prepare_help_command,
\* and an exception of a render that is no CommandError, reach the caller of
\* send_help without on_help_command_error being called.
C10_CommandErrorOfRenderRedirected ==
    HelpExited =>
        \A i \in 1..Len(help.log) :
            RendererFailed(i) =>
                IF help.log[i].fn \in Renders /\ help.log[i].outcome = "CommandError"
                  THEN /\ HandedOver(i)
                       /\ help.log[i + 1].outcome = "return"
                            => result = Returned("send_help", None)
                  ELSE /\ Len(help.log) = i
                       /\ result = Raised("send_help", help.log[i].outcome)

\* send_help("g"): the group render raised a CommandError, on_help_command_error
\* was given it and returned, and send_help returned None
C10_Witness ==
    /\ HelpExited
    /\ help.args = <<Object("str", "g")>>
    /\ Len(help.log) = 3
    /\ help.log[2].fn = "send_group_help"
    /\ help.log[2].outcome = "CommandError"
    /\ help.log[3].outcome = "return"
    /\ result = Returned("send_help", None)

-----------------------------------------------------------------------------
(* send_help with nothing to show, context.py:361-390 *)

\* the bot has no help command, or the entity is a name of neither a cog nor a
\* command, or the entity has no qualified_name
NothingToShow ==
    \/ ~bot.configured
    \/ /\ help.args # <<>>
       /\ LET entity == help.args[1]
          IN  \/ /\ entity.type = "str"
                 /\ get_cog(entity.name) = NoObject
                 /\ get_command(entity.name) = NoObject
              \/ entity.type = "object"

\* C11: when the bot has no help command, when the entity is a string that
\* names neither a cog nor a command, and when the entity has no qualified_name,
\* send_help returns None without raising, and neither prepare_help_command nor
\* a render nor on_help_command_error has been called.
C11_NothingToShowReturnsNone ==
    (HelpExited /\ NothingToShow)
        => /\ result = Returned("send_help", None)
           /\ help.log = <<>>

C11_Witness ==
    /\ HelpExited
    /\ bot.configured
    /\ help.args = <<Object("str", "zz")>>
    /\ help.log = <<>>

-----------------------------------------------------------------------------
(* Properties of reply *)

Replying == args.op = "reply" /\ pc # "idle"

\* the transport call a call of reply awaited first, as it was when issued
FirstCall == [calls[1] EXCEPT !.outcome = "pending"]

\* what send does up to its first await, called at the moment and with the
\* session of the current call
SendWould(kwargs) ==
    Begin(args.content, args.return_message, args.ephemeral, kwargs,
          args.session, args.at)

\* C13 as claimed: for every content, return_message and options, reply does
\* what send does given the options plus a reference to the originating message.
C13_Claimed_ReplyIsSendForAllOptions ==
    Replying
        => /\ calls # <<>>
           /\ FirstCall = SendWould(WithReference(args.kwargs)).calls[1]

\* C13, amended: for options that hold no reference of their own, reply does
\* what send does given the options plus a reference to the originating message:
\* on the plain transport the channel send gets the caller's options and the
\* reference; on the interactive transport reply awaits the same first call with
\* the same options as send given the caller's options alone, and goes on with
\* the same options, none of which is the reference.  For options that hold a
\* reference reply raises TypeError and no transport call is made.
C13_ReplyIsSendWithReference ==
    Replying =>
        IF "reference" \in DOMAIN args.kwargs
          THEN /\ result = Raised("reply", "TypeError")
               /\ calls = <<>>
          ELSE /\ calls # <<>>
               /\ FirstCall = SendWould(WithReference(args.kwargs)).calls[1]
               /\ kw = SendWould(WithReference(args.kwargs)).kw
               /\ IF Plain(args.session, args.at)
                    THEN /\ FirstCall.fn = "channel.send"
                         /\ FirstCall.options = WithReference(args.kwargs)
                         /\ "reference" \in DOMAIN FirstCall.options
                         /\ FirstCall.options["reference"] = "message"
                    ELSE /\ FirstCall = SendWould(args.kwargs).calls[1]
                         /\ kw = SendWould(args.kwargs).kw
                         /\ \A i \in 1..Len(calls) :
                              "reference" \notin DOMAIN calls[i].options

C13_Witness ==
    /\ Replying
    /\ pc = "done"
    /\ "reference" \notin DOMAIN args.kwargs
    /\ ~Plain(args.session, args.at)
    /\ Len(calls) = 2
    /\ calls[2].fn = "followup.send"
    /\ calls[2].outcome = "WebhookMessage"

-----------------------------------------------------------------------------
(* Properties of the cached properties *)

\* C12: every read of guild, channel, author or me returns the value the first
\* read of that property returned, whatever the message's guild, channel and
\* author have become since and whatever send, reply, reinvoke and send_help
\* calls were made in between.
C12_ReadsReturnFirstValue ==
    \A r \in props.got : props.first[r[1]] = {r[2]}

\* me was read while the message was in guild G1; the message has since changed
\* its guild, channel and author, and a send on the plain transport has read the
\* channel again and got the channel of the first read
C12_Witness ==
    /\ pc = "done"
    /\ result = Returned("send", "Message")
    /\ props.got = {<<"channel", "C1">>}
    /\ props.first.me = {"G1.me"}
    /\ message = [guild |-> "G2", channel |-> "C2", author |-> "A2"]

-----------------------------------------------------------------------------
(* Properties of valid *)

\* a step in which valid is read and returns another value than the last read
ValidRead == result'.op = "valid" /\ result' # result

\* C14: in every reachable state, between calls, inside reinvoke and after it,
\* valid is true exactly when the prefix is not None and the command is not
\* None; a read of valid returns that truth value and changes no field of the
\* context or of its view.
C14_ValidIffPrefixAndCommand ==
    [][ /\ valid <=> (self.prefix # NoStr /\ self.command # None)
        /\ ValidRead
            => /\ result'.value = Bool(self.prefix # NoStr /\ self.command # None)
               /\ UNCHANGED <<pc, reinvokeVars, sendVars, helpVars, restVars>> ]_vars

\* inside reinvoke, after the inner call has set the command to None on a context
\* with a prefix, valid has been read and was false
C14_Witness ==
    /\ pc = "inner"
    /\ pre.ctx.self.command # None
    /\ self.prefix # NoStr
    /\ self.command = None
    /\ result = Returned("valid", "False")

-----------------------------------------------------------------------------
(* Properties of reinvoke without restart *)

\* C15 as claimed: once reinvoke(restart=False) on a context with a command has
\* exited, whatever the inner call did, an append to invoked_parents in place
\* included, the contents of invoked_parents equal what they were before the
\* call, and so do command, invoked_with, invoked_subcommand, subcommand_passed
\* and the view's index and previous.
C15_Claimed_NoRestartRestoresContents ==
    (ReinvokeExited /\ ~pre.restart /\ pre.ctx.self.command # None)
        => Snapshot = PreSnapshot

\* C16: when reinvoke(restart=False) enters the inner reinvocation, the target is
\* the current command itself, not its root ancestor, it is given the caller's
\* call_hooks, and the view's index and previous, invoked_with, invoked_parents,
\* invoked_subcommand and subcommand_passed (and command) are what they were
\* before the call.
C16_NoRestartResumesInPlace ==
    (Entered /\ ~pre.restart)
        => /\ reinvoked = <<[target |-> pre.ctx.self.command,
                             call_hooks |-> pre.call_hooks,
                             outcome |-> "pending"]>>
           /\ Snapshot = PreSnapshot

\* reinvoke(call_hooks=True) of "!g s" has entered the reinvoke of s, which has
\* the parent g, with the cursor still after s
C16_Witness ==
    /\ Entered
    /\ ~pre.restart
    /\ pre.call_hooks
    /\ pre.ctx.self.command = "s"
    /\ Parent("s") = "g"
    /\ reinvoked[1].target = "s"
    /\ view.index = 4

-----------------------------------------------------------------------------
(* Properties of the render send_help chooses *)

\* the callbacks of the log that are renders
Rendered == {i \in 1..Len(help.log) : help.log[i].fn \in Renders}

\* the only render called is fn, right after prepare_help_command, on the entity
OnlyRender(fn) ==
    /\ Rendered = {2}
    /\ help.log[2].fn = fn
    /\ help.log[2].arg = help.entity.name

\* C17: once prepare_help_command has returned for a resolved entity, send_help
\* calls exactly one render, chosen by the entity's kind: send_cog_help for a
\* cog, send_group_help (never send_command_help) for a group, send_command_help
\* for a command that is no group; for an entity that has a qualified_name and is
\* none of these it calls no render and returns None.
C17_OneRenderByKind ==
    (help.args # <<>> /\ help.log # <<>> /\ help.log[1].outcome = "return")
        => IF help.entity.type = "cog" THEN OnlyRender("send_cog_help")
           ELSE IF help.entity.type = "group" THEN OnlyRender("send_group_help")
           ELSE IF help.entity.type = "command" THEN OnlyRender("send_command_help")
           ELSE /\ help.entity.type = "other"
                /\ Rendered = {}
                /\ Len(help.log) = 1
                /\ result = Returned("send_help", None)

\* send_help(g) for the group g: send_group_help was called and returned, and
\* send_help returned its result
C17_Witness ==
    /\ HelpExited
    /\ help.args = <<Object("group", "g")>>
    /\ Len(help.log) = 2
    /\ help.log[2] = [fn |-> "send_group_help", arg |-> "g", outcome |-> "return"]
    /\ result = Returned("send_help", "help")

-----------------------------------------------------------------------------
(* Properties of a session over several calls *)

RECURSIVE Flat(_)
Flat(s) == IF s = <<>> THEN <<>> ELSE Head(s) \o Flat(Tail(s))

\* the transport calls of the session so far, in the order they were issued
Issued ==
    Flat(past) \o [i \in 1..Len(calls) |->
                     [fn |-> calls[i].fn, outcome |-> calls[i].outcome]]

\* the initial acknowledgments: an initial-response send, a deferral
Acks == {"response.send_message", "response.defer"}

\* an acknowledgment that went through: the session recorded its initial response
Acknowledged(call) == call.fn \in Acks /\ call.outcome = None

\* an earlier call than the current one acknowledged the session
AcknowledgedBefore == \E i \in 1..Len(Flat(past)) : Acknowledged(Flat(past)[i])

\* C18 as claimed: over send and reply calls made one after another inside the
\* window of an interactive session, at most one initial acknowledgment is ever
\* issued, no follow-up is issued while the session has no initial response, and
\* every call after the first uses the follow-up path without deferring.
C18_Claimed_OneAckEverIssued ==
    /\ Cardinality({i \in 1..Len(Issued) : Issued[i].fn \in Acks}) <= 1
    /\ \A i \in 1..Len(calls) :
         calls[i].fn = "followup.send" /\ calls[i].outcome = "pending"
            => is_done(interaction)
    /\ (past # <<>> /\ calls # <<>>)
         => \A i \in 1..Len(calls) : calls[i].fn = "followup.send"

\* C18, amended: over send and reply calls made one after another inside the
\* window of an interactive session, at most one initial acknowledgment goes
\* through, and none is issued after one that went through (one that failed may
\* be followed by another, in a later call); no follow-up is issued while the
\* session has no initial response; a call made while the session has no initial
\* response starts with an acknowledgment, and every call made after an
\* acknowledgment went through uses the follow-up path alone, without deferring.
C18_OneAckGoesThrough ==
    /\ Cardinality({i \in 1..Len(Issued) : Acknowledged(Issued[i])}) <= 1
    /\ \A i, j \in 1..Len(Issued) :
         (i < j /\ Acknowledged(Issued[i])) => Issued[j].fn = "followup.send"
    /\ \A j \in 1..Len(Issued) :
         Issued[j].fn = "followup.send"
            => /\ \E i \in 1..(j - 1) : Acknowledged(Issued[i])
               /\ j = Len(Issued) /\ Issued[j].outcome = "pending"
                    => is_done(interaction)
    /\ calls # <<>>
         => IF AcknowledgedBefore
              THEN Len(calls) = 1 /\ calls[1].fn = "followup.send"
              ELSE calls[1].fn \in Acks

\* the deferral of the first call failed, the second call deferred again, went
\* through and followed up, and the third call uses the follow-up alone
C18_Witness ==
    /\ Len(past) = 2
    /\ past[1] = <<[fn |-> "response.defer", outcome |-> "HTTPException"]>>
    /\ Len(past[2]) = 2
    /\ Acknowledged(past[2][1])
    /\ pc = "done"
    /\ Len(calls) = 1
    /\ calls[1].fn = "followup.send"
    /\ calls[1].outcome = "WebhookMessage"

-----------------------------------------------------------------------------
(* Properties of two calls in flight *)

\* the initial acknowledgments among the transport calls cs
AcksOf(cs) == {i \in 1..Len(cs) : cs[i].fn \in Acks}

\* C19 as claimed: when two send calls on one context with an active interactive
\* session that has no response yet interleave at their awaits, at most one
\* initial acknowledgment (response.send_message or response.defer) is issued,
\* in every interleaving.
C19_Claimed_OneAckInEveryInterleaving ==
    Cardinality(AcksOf(calls)) + Cardinality(AcksOf(parked.calls)) <= 1

InHelp(p) == p \in {"prepare_help_command", "render", "on_help_command_error"}

\* C20: send_help never changes the context binding of the bot's own help
\* command; a call that has got to a callback works with a copy of it, and the
\* context that copy is bound to is the context send_help was called on, for the
\* running call and for a call suspended meanwhile, after any sequence and
\* interleaving of send_help calls of two contexts.
C20_HelpCommandCopiedPerCall ==
    /\ bot.context = None
    /\ InHelp(pc)
         => /\ help.cmd # "bot.help_command"
            /\ ContextOf(help) = ctx
    /\ InHelp(parked.pc)
         => /\ parked.help.cmd # "bot.help_command"
            /\ ContextOf(parked.help) = parked.ctx

\* send_help of ctx1 is suspended in its render while send_help of ctx2, called
\* after it, is in its own render
C20_Witness ==
    /\ pc = "render"
    /\ ctx = "ctx2"
    /\ ContextOf(help) = "ctx2"
    /\ parked.pc = "render"
    /\ parked.ctx = "ctx1"
    /\ ContextOf(parked.help) = "ctx1"

====
